---- MODULE Spec2Model ----
(***************************************************************************)
(* Lifecycle controller of the OpenShift Local (crc) extension:            *)
(*   src/src/crc-start.ts   startCrc, askAndStorePullSecret                 *)
(*   src/src/extension.ts   activate, createCrcVm, initializeCrc,           *)
(*                          presetChanged, registerPodmanConnection,        *)
(*                          registerOpenShiftLocalCluster, handleDelete     *)
(*                                                                         *)
(* Execution is single-threaded and cooperative: one step of the model is  *)
(* one run of a continuation, from the resolution of an awaited promise    *)
(* (or from a host call) to the next await of an external operation.       *)
(***************************************************************************)
EXTENDS Naturals, Sequences, FiniteSets

(***************************************************************************)
(* Bounds of the model.                                                    *)
(***************************************************************************)
\* number of host operations (lifecycle start, factory initialize/create) in flight
MaxOps == 2
\* recursive retries of startCrc inside one start operation
MaxRetries == 1
\* presetChanged invocations suspended in readPreset at the same time
MaxPending == 2
\* container (podman) connections kept registered with the host
MaxContainers == 1
\* handleDelete invocations suspended in deleteCrc at the same time
MaxDeletes == 1

Ops == 1..MaxOps

(***************************************************************************)
(* JSON text of a pull secret.  A text is a sequence of tokens; JSONParse   *)
(* is a recursive-descent parser of the JSON subset made of objects,       *)
(* strings, numbers and null.                                              *)
(***************************************************************************)
P(c) == [k |-> "punct", v |-> c]
S(s) == [k |-> "str", v |-> s]
L(s) == [k |-> "lit", v |-> s]

LB == P("{")
RB == P("}")
CL == P(":")
CM == P(",")

JNull == [t |-> "null"]
JStr(s) == [t |-> "str", v |-> s]
JNum(n) == [t |-> "num", v |-> n]
JObj(m) == [t |-> "obj", m |-> m]

ParseFail == [ok |-> FALSE, val |-> JNull, next |-> 0]

RECURSIVE ParseValue(_, _)
RECURSIVE ParseMembers(_, _, _)

\* members of an object after its "{" or after a ","; acc holds <<key, value>> pairs
ParseMembers(toks, i, acc) ==
  IF i + 1 > Len(toks) \/ toks[i].k # "str" \/ toks[i + 1] # CL
  THEN ParseFail
  ELSE LET r == ParseValue(toks, i + 2) IN
       IF ~r.ok \/ r.next > Len(toks)
       THEN ParseFail
       ELSE LET acc2 == Append(acc, <<toks[i].v, r.val>>) IN
            IF toks[r.next] = RB
            THEN [ok |-> TRUE, val |-> JObj(acc2), next |-> r.next + 1]
            ELSE IF toks[r.next] = CM
                 THEN ParseMembers(toks, r.next + 1, acc2)
                 ELSE ParseFail

ParseValue(toks, i) ==
  IF i > Len(toks) THEN ParseFail
  ELSE LET tk == toks[i] IN
       IF tk.k = "str" THEN [ok |-> TRUE, val |-> JStr(tk.v), next |-> i + 1]
       ELSE IF tk.k = "lit"
            THEN IF tk.v = "null" THEN [ok |-> TRUE, val |-> JNull, next |-> i + 1]
                 ELSE IF tk.v = "0" THEN [ok |-> TRUE, val |-> JNum(0), next |-> i + 1]
                 ELSE IF tk.v = "5" THEN [ok |-> TRUE, val |-> JNum(5), next |-> i + 1]
                 ELSE ParseFail
            ELSE IF tk = LB
                 THEN IF i + 1 <= Len(toks) /\ toks[i + 1] = RB
                      THEN [ok |-> TRUE, val |-> JObj(<<>>), next |-> i + 2]
                      ELSE ParseMembers(toks, i + 1, <<>>)
                 ELSE ParseFail

\* JSON.parse: the whole text must be one value; otherwise a SyntaxError is thrown
JSONParse(toks) ==
  LET r == ParseValue(toks, 1) IN
  IF r.ok /\ r.next = Len(toks) + 1
  THEN [ok |-> TRUE, val |-> r.val]
  ELSE [ok |-> FALSE, val |-> JNull]

(***************************************************************************)
(* JavaScript's view of a parsed value.                                    *)
(***************************************************************************)
JUndefined == [t |-> "undefined"]

\* x[key]; reading a property of null or undefined throws a TypeError
CanRead(x) == x.t \notin {"null", "undefined"}

\* the last member with that key wins, as in JSON.parse
Get(x, key) ==
  IF x.t # "obj" THEN JUndefined
  ELSE LET idx == {i \in 1..Len(x.m) : x.m[i][1] = key} IN
       IF idx = {} THEN JUndefined
       ELSE x.m[CHOOSE i \in idx : \A j \in idx : j <= i][2]

Truthy(x) ==
  CASE x.t = "obj" -> TRUE
    [] x.t = "str" -> x.v # ""
    [] x.t = "num" -> x.v # 0
    [] OTHER -> FALSE

\* s.auths[a]: a member of an object, a one-character string of a string
Entry(x, a) == IF x.t = "str" THEN JStr("c") ELSE Get(x, a)

(***************************************************************************)
(* askAndStorePullSecret: validation of the text the user entered.          *)
(***************************************************************************)
RECURSIVE CheckEntries(_, _)
\* for (const a in s.auths): the first entry without auth and credsStore throws
CheckEntries(auths, keys) ==
  IF keys = <<>> THEN "none"
  ELSE LET aut == Entry(auths, Head(keys)) IN
       IF ~CanRead(aut) THEN "TypeError"
       ELSE IF ~Truthy(Get(aut, "auth")) /\ ~Truthy(Get(aut, "credsStore"))
            THEN "requires either 'auth' or 'credsStore' field"
            ELSE CheckEntries(auths, Tail(keys))

\* Object.keys: the member names of an object, the indices of a string
KeySeq(x) ==
  CASE x.t = "obj" -> [i \in 1..Len(x.m) |-> x.m[i][1]]
    [] x.t = "str" -> IF x.v = "" THEN <<>> ELSE <<"0">>
    [] OTHER -> <<>>

\* a faulty variant: the entries of auths are not inspected
ValidationErrorNoEntryCheck(text) ==
  LET r == JSONParse(text) IN
  IF ~r.ok THEN "SyntaxError"
  ELSE IF ~CanRead(r.val) THEN "TypeError"
  ELSE LET auths == Get(r.val, "auths") IN
       IF Truthy(auths) /\ Len(KeySeq(auths)) > 0
       THEN "none"
       ELSE "missing auths JSON-object field"

\* the value thrown inside the try of lines 102-113, "none" when nothing is thrown
ValidationError(text) ==
  LET r == JSONParse(text) IN
  IF ~r.ok THEN "SyntaxError"
  ELSE IF ~CanRead(r.val) THEN "TypeError"
  ELSE LET auths == Get(r.val, "auths") IN
       IF Truthy(auths) /\ Len(KeySeq(auths)) > 0
       THEN CheckEntries(auths, KeySeq(auths))
       ELSE "missing auths JSON-object field"

\* the texts a user may enter at the prompt
Obj1(k, v) == <<LB, S(k), CL>> \o v \o <<RB>>
Obj2(k1, v1, k2, v2) == <<LB, S(k1), CL>> \o v1 \o <<CM, S(k2), CL>> \o v2 \o <<RB>>
EmptyObj == <<LB, RB>>
AuthEntry == Obj1("auth", <<S("xxx")>>)
CredsEntry == Obj1("credsStore", <<S("desktop")>>)

PullSecretInputs ==
  << <<>>,                                                   \* the empty string
     <<L("oops")>>,                                          \* not JSON
     <<LB, S("auths"), CL>>,                                 \* truncated JSON
     <<L("null")>>,
     <<L("5")>>,
     <<S("secret")>>,
     EmptyObj,                                               \* {}
     Obj1("auths", EmptyObj),                                \* {"auths":{}}
     Obj1("auths", Obj1("r", EmptyObj)),                     \* {"auths":{"r":{}}}
     Obj1("auths", Obj1("registry.io", AuthEntry)),          \* {"auths":{"registry.io":{"auth":"xxx"}}}
     Obj1("auths", Obj1("r", CredsEntry)),
     Obj1("auths", Obj2("r", AuthEntry, "q", CredsEntry)),
     Obj1("auths", Obj2("r", AuthEntry, "q", EmptyObj)),
     Obj1("auths", Obj2("r", EmptyObj, "q", AuthEntry)),
     Obj1("auths", <<L("null")>>),
     Obj1("auths", Obj1("r", <<L("null")>>)),
     Obj1("auths", <<S("secret")>>),
     Obj1("auths", <<L("5")>>),
     Obj1("auths", Obj1("r", Obj1("auth", <<S("")>>))),
     Obj1("auths", Obj1("r", <<S("xxx")>>)),
     Obj1("other", Obj1("r", AuthEntry)),
     Obj2("auths", Obj1("r", AuthEntry), "x", <<L("5")>>) >>

\* what showInputBox resolves to: 0 is undefined (the prompt was cancelled)
PromptResults == 0..Len(PullSecretInputs)

(***************************************************************************)
(* What the daemon's start operation may answer (commander.start).          *)
(***************************************************************************)
missingPullSecret == "Failed to ask for pull secret"

DaemonStatuses == {"Running", "Starting", "Stopped", "running"}

\* thrown values: Error objects (message, name, code) and a thrown string
ThrownErrors ==
  { [hasMessage |-> TRUE, message |-> <<missingPullSecret, ": no pull secret">>,
     name |-> "Error", code |-> "none"],
    [hasMessage |-> TRUE, message |-> <<missingPullSecret>>,
     name |-> "RequestError", code |-> "ECONNRESET"],
    [hasMessage |-> TRUE, message |-> <<"start: ", missingPullSecret>>,
     name |-> "Error", code |-> "none"],
    [hasMessage |-> TRUE, message |-> <<"socket hang up">>,
     name |-> "RequestError", code |-> "ECONNRESET"],
    [hasMessage |-> TRUE, message |-> <<"connect ECONNREFUSED">>,
     name |-> "RequestError", code |-> "ECONNREFUSED"],
    [hasMessage |-> TRUE, message |-> <<"read ECONNRESET">>,
     name |-> "Error", code |-> "ECONNRESET"],
    [hasMessage |-> TRUE, message |-> <<"Internal Server Error">>,
     name |-> "HTTPError", code |-> "none"],
    [hasMessage |-> FALSE, message |-> <<>>, name |-> "none", code |-> "none"] }

NoError == [hasMessage |-> FALSE, message |-> <<"-">>, name |-> "-", code |-> "-"]

\* crcLogProvider.startSendingLogs(logger), called without await (line 58): it
\* returns, returns a promise that rejects later, or throws
LogResults == {"ok", "reject", "throw"}

\* the error startSendingLogs throws
LogsError == [hasMessage |-> TRUE, message |-> <<"logs are not supported">>,
              name |-> "Error", code |-> "none"]

\* String.prototype.startsWith on a message held as a sequence of fragments
StartsWith(message, prefix) == Len(message) >= 1 /\ message[1] = prefix

\* a faulty variant: every connection reset counts, whatever the error's name
IsConnectionResetAnyName(err) == err.code = "ECONNRESET"

IsConnectionReset(err) == err.name = "RequestError" /\ err.code = "ECONNRESET"

IsMissingPullSecret(err) == StartsWith(err.message, missingPullSecret)

\* a faulty variant: every reported status counts as a successful start
StartResultAlwaysRunning(status) ==
  [status |-> "started", out |-> "true", calls |-> <<"updateStatus(started)">>]

\* lines 60-66 and 88: the status commander.start() resolved to decides the result
StartResult(status) ==
  IF status = "Running"
  THEN [status |-> "started", out |-> "true", calls |-> <<"updateStatus(started)">>]
  ELSE [status |-> "error", out |-> "false",
        calls |-> <<"updateStatus(error)", "showErrorMessage">>]

\* lines 67-88: what the catch block does with an error thrown in the try block;
\* next = "ask" goes on to askAndStorePullSecret, status "-" leaves the status alone
StartCatch(err) ==
  IF err.hasMessage /\ IsMissingPullSecret(err)
  THEN [next |-> "ask", status |-> "-", out |-> "-", calls |-> <<"showInputBox">>]
  ELSE IF err.hasMessage /\ IsConnectionReset(err)
       THEN [next |-> "done", status |-> "started", out |-> "true",
             calls |-> <<"updateStatus(started)">>]
       ELSE [next |-> "done", status |-> "stopped", out |-> "false",
             calls |-> <<"showErrorMessage", "console.error", "updateStatus(stopped)">>]

\* lines 50-56: setUpCrc or needSetup threw
SetupCatch ==
  [status |-> "stopped", out |-> "undefined", running |-> FALSE,
   calls |-> <<"logger.error", "updateStatus(stopped)", "setSetupRunning(false)">>]

\* a faulty variant: the retry's result is dropped and failure is reported
RetryReturnFalse(o) == "false"

\* line 74, return startCrc(...): the outer call settles as the retried call does
RetryReturn(o) == o

\* a faulty variant: the start is run again although no pull secret was stored
AskFailedRetries == [retry |-> TRUE, out |-> "-"]

\* lines 75-77: askAndStorePullSecret resolved to false
AskFailed == [retry |-> FALSE, out |-> "throw: Could not start without pullsecret!"]

\* a faulty variant: startCrc runs the setup whether or not it is needed
StartEntryAlwaysSetup(needSetup) ==
  [pc |-> "setUpCrc", calls |-> <<"logUsage(crc.start)", "setSetupRunning(true)", "setUpCrc">>]

\* lines 42-59, up to the first await: which operation startCrc waits for first
StartEntry(needSetup) ==
  IF needSetup
  THEN [pc |-> "setUpCrc", calls |-> <<"logUsage(crc.start)", "setSetupRunning(true)", "setUpCrc">>]
  ELSE [pc |-> "commanderStart",
        calls |-> <<"logUsage(crc.start)", "startSendingLogs", "commander.start">>]

(***************************************************************************)
(* The connection binder: pure steps over                                  *)
(*   b = [cd, k8s, cont, calls]                                            *)
(* cd is connectionDisposable: "undefined", or the state ("live",          *)
(* "disposed") of the Kubernetes connection it refers to; k8s and cont     *)
(* count the Kubernetes and the container connections that are registered  *)
(* with the host and not disposed.                                         *)
(***************************************************************************)
Presets == {"openshift", "microshift", "podman"}

\* Disposable.dispose(): disposing twice leaves the connection disposed
Dispose(b) ==
  [b EXCEPT !.k8s = IF b.cd = "live" THEN @ - 1 ELSE @,
            !.cd = "disposed",
            !.calls = Append(@, "connectionDisposable.dispose")]

\* lines 362-365
DisposeExisting(b) ==
  IF b.cd # "undefined" THEN [Dispose(b) EXCEPT !.cd = "undefined"] ELSE b

\* lines 255-281
RegisterPodmanConnection(b, socketExists) ==
  IF socketExists
  THEN [b EXCEPT !.cont = @ + 1, !.calls = Append(@, "registerContainerProviderConnection")]
  ELSE [b EXCEPT !.calls = Append(@, "console.error")]

\* lines 288-319
RegisterOpenShiftLocalCluster(b) ==
  [b EXCEPT !.cd = "live", !.k8s = @ + 1,
            !.calls = Append(@, "registerKubernetesProviderConnection")]

\* a faulty variant: the new connection is registered first, the old one disposed after
PresetChangedBodyRegisterFirst(b, preset, socketExists) ==
  LET b1 == [b EXCEPT !.calls = Append(@, "updateVersion")] IN
  IF preset = "podman"
  THEN DisposeExisting(RegisterPodmanConnection(
         [b1 EXCEPT !.calls = Append(@, "showInformationMessage")], socketExists))
  ELSE RegisterOpenShiftLocalCluster(DisposeExisting(b1))

\* lines 360-378: presetChanged after readPreset resolved
PresetChangedBody(b, preset, socketExists) ==
  LET b1 == DisposeExisting([b EXCEPT !.calls = Append(@, "updateVersion")]) IN
  IF preset = "podman"
  THEN RegisterPodmanConnection(
         [b1 EXCEPT !.calls = Append(@, "showInformationMessage")], socketExists)
  ELSE IF preset \in {"openshift", "microshift"}
       THEN RegisterOpenShiftLocalCluster(b1)
       ELSE b1

\* a faulty variant: the connection is disposed whatever deleteCrc resolved to
HandleDeleteBodyAlways(b, deleteResult) ==
  LET b1 == [b EXCEPT !.calls = Append(@, "commandManager.dispose")] IN
  IF b1.cd # "undefined" THEN Dispose(b1) ELSE b1

\* lines 323-329: handleDelete after deleteCrc resolved to deleteResult
HandleDeleteBody(b, deleteResult) ==
  IF deleteResult
  THEN LET b1 == [b EXCEPT !.calls = Append(@, "commandManager.dispose")] IN
       IF b1.cd # "undefined" THEN Dispose(b1) ELSE b1
  ELSE b

(***************************************************************************)
(* Collaborators whose code is outside src/: the setup coordinator          *)
(* (crc-setup), the status tracker (crc-status) and the daemon's delete.    *)
(***************************************************************************)
\* setUpCrc(logger, ...) resolves to whether setup succeeded, or rejects
SetupResults == {"true", "false", "throw"}

\* needSetup() re-evaluates the flag: setup is still needed unless it succeeded
NeedSetupAfter(setupSucceeded) == ~setupSucceeded

\* crcStatus.status.CrcStatus, the status the tracker fetched last from the daemon and
\* read where the code uses it: two values the code compares with, the rest opaque
CrcStatuses == {"No Cluster", "Need Setup", "Running"}

\* deleteCrc(true) resolves to whether the daemon deleted the cluster, or rejects
DeleteResults == {"true", "false", "throw"}

(***************************************************************************)
(* State.                                                                  *)
(***************************************************************************)
VARIABLES
  providerStatus,        \* the status last given to provider.updateStatus
  isNeedSetup,           \* crc-setup's flag
  setupRunning,          \* crcStatus.setSetupRunning
  crcVersion,            \* whether crcVersion is defined
  connectionDisposable,  \* "undefined", "live" or "disposed"
  liveK8s,               \* Kubernetes connections registered and not disposed
  liveContainers,        \* container connections registered and not disposed
  commands,              \* whether the commands are registered
  pendingPreset,         \* presetChanged calls awaiting readPreset
  pendingDelete,         \* handleDelete calls awaiting deleteCrc
  installing,            \* install callbacks awaiting connectToCrc
  pc,                    \* per operation: the await it is suspended at
  entry,                 \* per operation: the host entry point that began it
  attempt,               \* per operation: how many times startCrc called itself
  setupFailed,           \* per operation: setup of the current attempt failed
  out,                   \* per operation: how its startCrc / createCrcVm settled
  ran,                   \* per operation: what it has invoked so far, in order
  ev                     \* the step just taken: the calls it made, in order

opVars == <<pc, entry, attempt, setupFailed, out, ran>>
binderVars == <<connectionDisposable, liveK8s, liveContainers>>
vars == <<providerStatus, isNeedSetup, setupRunning, crcVersion,
          connectionDisposable, liveK8s, liveContainers, commands, pendingPreset,
          pendingDelete, installing, pc, entry, attempt, setupFailed, out, ran, ev>>

NoEv ==
  [op |-> "activate", p |-> 0, calls |-> <<>>, preset |-> "-", socket |-> FALSE,
   threw |-> FALSE, input |-> 0, err |-> NoError, reported |-> "-", attemptOut |-> "-",
   answer |-> "-", logs |-> "-"]

Throws == {"throw: Could not start without pullsecret!", "throw: not initialized",
           "throw: setup error"}

StartPcs == {"setUpCrc", "needSetup", "commanderStart", "prompt", "store"}

Upd(f, p, v) == [f EXCEPT ![p] = v]

\* the calls of a step that the history of an operation keeps
Milestone(c) == c \in {"setUpCrc", "crcStatus.initialize", "commander.start"}

Binder == [cd |-> connectionDisposable, k8s |-> liveK8s, cont |-> liveContainers,
           calls |-> <<>>]

(***************************************************************************)
(* activate (lines 51-187).  The installed version, the setup flag and the  *)
(* daemon's status are what activation finds; lines 142-146 call            *)
(* presetChanged and register the commands.                                *)
(***************************************************************************)
InitWith(version, needSetup, status) ==
  /\ crcVersion = version
  /\ isNeedSetup = needSetup
  /\ providerStatus = IF crcVersion THEN "installed" ELSE "not-installed"
  /\ setupRunning = FALSE
  /\ connectionDisposable = "undefined"
  /\ liveK8s = 0
  /\ liveContainers = 0
  /\ commands = (~isNeedSetup /\ status # "No Cluster")
  /\ pendingPreset = IF ~isNeedSetup /\ status # "No Cluster" THEN 1 ELSE 0
  /\ pendingDelete = 0
  /\ installing = 0
  /\ pc = [p \in Ops |-> "idle"]
  /\ entry = [p \in Ops |-> "-"]
  /\ attempt = [p \in Ops |-> 0]
  /\ setupFailed = [p \in Ops |-> FALSE]
  /\ out = [p \in Ops |-> "-"]
  /\ ran = [p \in Ops |-> <<>>]
  /\ ev = NoEv

Init ==
  \E version \in BOOLEAN, needSetup \in BOOLEAN, status \in CrcStatuses :
    InitWith(version, needSetup, status)

(***************************************************************************)
(* startCrc (crc-start.ts lines 37-89).                                    *)
(***************************************************************************)
\* startCrc or createCrcVm settles for operation p, begun at entry point e, in its
\* attempt att, with o (the value returned, or the error thrown); then the caller goes
\* on: createCrcVm lines 207-211 and the factory's create, line 132.  np and cmds are
\* the pending presetChanged calls and the commands as the step has left them so far
FinishAs(p, e, att, o, calls, e0, np, cmds) ==
  LET final == IF att > 0 THEN RetryReturn(o) ELSE o
      factory == e \in {"initialize", "create"}
      wire == factory /\ final = "true" /\ connectionDisposable = "undefined"
      again == e = "create" /\ final \notin Throws
      n == (IF wire THEN 1 ELSE 0) + (IF again THEN 1 ELSE 0)
  IN
  /\ np + n <= MaxPending
  /\ pc' = Upd(pc, p, "done")
  /\ out' = Upd(out, p, final)
  /\ pendingPreset' = np + n
  /\ commands' = (cmds \/ wire)
  /\ ev' = [e0 EXCEPT !.p = p, !.attemptOut = o,
                      !.calls = calls \o (IF wire THEN <<"addCommands", "presetChanged">> ELSE <<>>)
                                      \o (IF again THEN <<"presetChanged">> ELSE <<>>)]

\* lines 58 and 67-88: startSendingLogs threw inside the try block of startCrc
LogsCatch == StartCatch(LogsError)

\* startCrc is entered by operation p as its attempt number att, after the calls pre
\* that left the provider status st; logs is how startSendingLogs (line 58) ends, if
\* the setup is not needed and it is called
Begin(p, e, att, pre, e0, st, np, cmds, logs) ==
  LET s == StartEntry(isNeedSetup)
      sofar == ran[p] \o (IF e0.op = "storeResolves" THEN <<"stored">> ELSE <<>>)
  IN
  /\ s.pc = "setUpCrc" => logs = "ok"
  /\ entry' = Upd(entry, p, e)
  /\ attempt' = Upd(attempt, p, att)
  /\ setupFailed' = Upd(setupFailed, p, FALSE)
  /\ IF s.pc = "commanderStart" /\ logs = "throw"
     THEN /\ providerStatus' = IF LogsCatch.status = "-" THEN st ELSE LogsCatch.status
          /\ ran' = Upd(ran, p, sofar)
          /\ FinishAs(p, e, att, LogsCatch.out,
                      pre \o <<"logUsage(crc.start)", "startSendingLogs">> \o LogsCatch.calls,
                      [e0 EXCEPT !.logs = logs], np, cmds)
          /\ UNCHANGED setupRunning
     ELSE /\ pc' = Upd(pc, p, s.pc)
          /\ out' = Upd(out, p, "-")
          /\ providerStatus' = st
          /\ pendingPreset' = np
          /\ commands' = cmds
          /\ setupRunning' = IF s.pc = "setUpCrc" THEN TRUE ELSE setupRunning
          /\ ran' = Upd(ran, p, sofar \o SelectSeq(s.calls, Milestone))
          /\ ev' = [e0 EXCEPT !.p = p, !.calls = pre \o s.calls,
                              !.logs = IF s.pc = "commanderStart" THEN logs ELSE "-"]

\* a startCrc call that is suspended settles with o
Finish(p, o, pre, e0) ==
  /\ FinishAs(p, entry[p], attempt[p], o, pre, e0, pendingPreset, commands)
  /\ UNCHANGED <<entry, attempt, ran>>

\* providerLifecycle.start (extension.ts lines 115-118)
ProviderStart(p, logs) ==
  /\ pc[p] = "idle"
  /\ Begin(p, "providerStart", 0, <<"updateStatus(starting)">>,
           [NoEv EXCEPT !.op = "providerStart"], "starting", pendingPreset, commands, logs)
  /\ UNCHANGED <<isNeedSetup, crcVersion, binderVars, pendingDelete, installing>>

\* kubernetesProviderConnection.lifecycle.start (extension.ts lines 309-312)
ConnectionStart(p, logs) ==
  /\ pc[p] = "idle"
  /\ liveK8s > 0
  /\ Begin(p, "connectionStart", 0, <<"updateStatus(starting)">>,
           [NoEv EXCEPT !.op = "connectionStart"], "starting", pendingPreset, commands, logs)
  /\ UNCHANGED <<isNeedSetup, crcVersion, binderVars, pendingDelete, installing>>

\* the setup of startCrc settled (lines 48, 50-56)
SetUpCrcResolves(p, r) ==
  /\ pc[p] = "setUpCrc"
  /\ IF r = "throw"
     THEN /\ providerStatus' = IF SetupCatch.status = "-" THEN providerStatus
                               ELSE SetupCatch.status
          /\ setupRunning' = SetupCatch.running
          /\ setupFailed' = Upd(setupFailed, p, TRUE)
          /\ Finish(p, SetupCatch.out, SetupCatch.calls,
                    [NoEv EXCEPT !.op = "setUpCrcResolves", !.answer = r])
     ELSE /\ pc' = Upd(pc, p, "needSetup")
          /\ setupFailed' = Upd(setupFailed, p, r = "false")
          /\ ev' = [NoEv EXCEPT !.op = "setUpCrcResolves", !.p = p, !.answer = r,
                                !.calls = <<"needSetup">>]
          /\ UNCHANGED <<providerStatus, setupRunning, entry, attempt, out, ran, commands,
                         pendingPreset>>
  /\ UNCHANGED <<isNeedSetup, crcVersion, binderVars, pendingDelete, installing>>

\* needSetup() of line 49 settled; the finally of line 55 runs, then lines 58-59
NeedSetupResolves(p, logs) ==
  /\ pc[p] = "needSetup"
  /\ isNeedSetup' = NeedSetupAfter(~setupFailed[p])
  /\ setupRunning' = FALSE
  /\ LET e0 == [NoEv EXCEPT !.op = "needSetupResolves", !.logs = logs] IN
     IF logs = "throw"
     THEN /\ providerStatus' = IF LogsCatch.status = "-" THEN providerStatus
                               ELSE LogsCatch.status
          /\ Finish(p, LogsCatch.out,
                    <<"setSetupRunning(false)", "startSendingLogs">> \o LogsCatch.calls, e0)
     ELSE /\ pc' = Upd(pc, p, "commanderStart")
          /\ ran' = Upd(ran, p, Append(ran[p], "commander.start"))
          /\ ev' = [e0 EXCEPT !.p = p,
                              !.calls = <<"setSetupRunning(false)", "startSendingLogs",
                                          "commander.start">>]
          /\ UNCHANGED <<providerStatus, commands, pendingPreset, entry, attempt, out>>
  /\ UNCHANGED <<crcVersion, binderVars, pendingDelete, installing, setupFailed>>

\* commander.start() resolved to {Status: status} (lines 59-66, 88)
CommanderStartResolves(p, status) ==
  /\ pc[p] = "commanderStart"
  /\ providerStatus' = StartResult(status).status
  /\ Finish(p, StartResult(status).out, StartResult(status).calls,
            [NoEv EXCEPT !.op = "commanderStartResolves", !.reported = status])
  /\ UNCHANGED <<isNeedSetup, setupRunning, crcVersion, binderVars,
                 pendingDelete, installing, setupFailed>>

\* commander.start() rejected with err (lines 67-88)
CommanderStartThrows(p, err) ==
  /\ pc[p] = "commanderStart"
  /\ LET c == StartCatch(err)
         e0 == [NoEv EXCEPT !.op = "commanderStartThrows", !.err = err]
     IN IF c.next = "ask"
        THEN /\ pc' = Upd(pc, p, "prompt")
             /\ ev' = [e0 EXCEPT !.p = p, !.calls = c.calls]
             /\ UNCHANGED <<providerStatus, entry, attempt, out, ran, commands,
                            pendingPreset>>
        ELSE /\ providerStatus' = c.status
             /\ Finish(p, c.out, c.calls, e0)
  /\ UNCHANGED <<isNeedSetup, setupRunning, crcVersion, binderVars,
                 pendingDelete, installing, setupFailed>>

\* askAndStorePullSecret resolved to false (lines 75-77)
AskFails(p, pre, e0) ==
  IF AskFailed.retry /\ attempt[p] < MaxRetries
  THEN Begin(p, entry[p], attempt[p] + 1, pre, e0, providerStatus, pendingPreset,
             commands, "ok")
  ELSE /\ Finish(p, "throw: Could not start without pullsecret!", pre, e0)
       /\ UNCHANGED <<providerStatus, setupRunning, setupFailed>>

\* showInputBox resolved (crc-start.ts lines 92-120); n = 0 is undefined
PromptResolves(p, n) ==
  /\ pc[p] = "prompt"
  /\ LET e0 == [NoEv EXCEPT !.op = "promptResolves", !.input = n] IN
     IF n = 0 \/ PullSecretInputs[n] = <<>>
     THEN AskFails(p, <<>>, e0)
     ELSE IF ValidationError(PullSecretInputs[n]) # "none"
          THEN AskFails(p, <<"showErrorMessage">>, e0)
          ELSE /\ pc' = Upd(pc, p, "store")
               /\ ev' = [e0 EXCEPT !.p = p, !.calls = <<"pullSecretStore">>]
               /\ UNCHANGED <<providerStatus, setupRunning, setupFailed, entry, attempt,
                              out, ran, commands, pendingPreset>>
  /\ UNCHANGED <<isNeedSetup, crcVersion, binderVars, pendingDelete, installing>>

\* commander.pullSecretStore settled (lines 119-126, then 72-77)
StoreResolves(p, stored, logs) ==
  /\ pc[p] = "store"
  /\ LET e0 == [NoEv EXCEPT !.op = IF stored THEN "storeResolves" ELSE "storeThrows"] IN
     IF stored
     THEN /\ attempt[p] < MaxRetries
          /\ Begin(p, entry[p], attempt[p] + 1, <<>>, e0, providerStatus, pendingPreset,
                   commands, logs)
     ELSE /\ logs = "ok"
          /\ AskFails(p, <<"console.error", "logger.error">>, e0)
  /\ UNCHANGED <<isNeedSetup, crcVersion, binderVars, pendingDelete, installing>>

\* the host has seen the operation settle
Settle(p) ==
  /\ pc[p] = "done"
  /\ pc' = Upd(pc, p, "idle")
  /\ entry' = Upd(entry, p, "-")
  /\ attempt' = Upd(attempt, p, 0)
  /\ setupFailed' = Upd(setupFailed, p, FALSE)
  /\ out' = Upd(out, p, "-")
  /\ ran' = Upd(ran, p, <<>>)
  /\ ev' = [NoEv EXCEPT !.op = "settle", !.p = p]
  /\ UNCHANGED <<providerStatus, isNeedSetup, setupRunning, crcVersion,
                 binderVars, commands, pendingPreset, pendingDelete, installing>>

(***************************************************************************)
(* createCrcVm and initializeCrc (extension.ts lines 189-228), entered from *)
(* the connection factory's initialize and create (lines 127-133).          *)
(***************************************************************************)
FactoryCall(p, e, status, logs) ==
  /\ pc[p] = "idle"
  /\ status # "No Cluster" => logs = "ok"
  /\ LET e0 == [NoEv EXCEPT !.op = e, !.reported = status] IN
     IF status \notin {"No Cluster", "Need Setup"}
     THEN \* we already have an instance: createCrcVm returns at once
          /\ entry' = Upd(entry, p, e)
          /\ attempt' = Upd(attempt, p, 0)
          /\ pendingPreset + (IF e = "create" THEN 1 ELSE 0) <= MaxPending
          /\ pendingPreset' = pendingPreset + (IF e = "create" THEN 1 ELSE 0)
          /\ pc' = Upd(pc, p, "done")
          /\ out' = Upd(out, p, "undefined")
          /\ ev' = [e0 EXCEPT !.p = p, !.attemptOut = "undefined",
                              !.calls = IF e = "create" THEN <<"presetChanged">> ELSE <<>>]
          /\ UNCHANGED <<providerStatus, commands, setupRunning, setupFailed, ran>>
     ELSE IF status = "Need Setup"
          THEN /\ pc' = Upd(pc, p, "initSetUpCrc")
               /\ entry' = Upd(entry, p, e)
               /\ ran' = Upd(ran, p, <<"initializeCrc", "setUpCrc">>)
               /\ ev' = [e0 EXCEPT !.p = p, !.calls = <<"setUpCrc">>]
               /\ UNCHANGED <<providerStatus, commands, setupRunning, setupFailed,
                              attempt, out, pendingPreset>>
          ELSE Begin(p, e, 0, <<>>, e0, providerStatus, pendingPreset, commands, logs)
  /\ UNCHANGED <<isNeedSetup, crcVersion, binderVars, pendingDelete, installing>>

\* initializeCrc: setUpCrc(logger, false) settled (lines 220-221, 201-204)
InitSetUpCrcResolves(p, r) ==
  /\ pc[p] = "initSetUpCrc"
  /\ LET e0 == [NoEv EXCEPT !.op = "initSetUpCrcResolves", !.p = p, !.answer = r] IN
     IF r = "true"
     THEN /\ pc' = Upd(pc, p, "initNeedSetup")
          /\ ev' = [e0 EXCEPT !.calls = <<"needSetup">>]
          /\ UNCHANGED <<out, setupFailed>>
     ELSE /\ pc' = Upd(pc, p, "done")
          /\ out' = Upd(out, p, IF r = "false" THEN "throw: not initialized"
                                ELSE "throw: setup error")
          /\ setupFailed' = Upd(setupFailed, p, TRUE)
          /\ ev' = [e0 EXCEPT !.attemptOut = IF r = "false" THEN "throw: not initialized"
                                             ELSE "throw: setup error"]
  /\ UNCHANGED <<providerStatus, isNeedSetup, setupRunning, crcVersion,
                 binderVars, commands, pendingPreset, pendingDelete, installing,
                 entry, attempt, ran>>

\* initializeCrc: needSetup() settled (line 222), connectToCrc begins (lines 223, 344)
InitNeedSetupResolves(p) ==
  /\ pc[p] = "initNeedSetup"
  /\ isNeedSetup' = NeedSetupAfter(TRUE)
  /\ pc' = Upd(pc, p, "initConnect")
  /\ ran' = Upd(ran, p, Append(ran[p], "crcStatus.initialize"))
  /\ ev' = [NoEv EXCEPT !.op = "initNeedSetupResolves", !.p = p,
                        !.calls = <<"crcStatus.initialize">>]
  /\ UNCHANGED <<providerStatus, setupRunning, crcVersion, binderVars, commands,
                 pendingPreset, pendingDelete, installing, entry, attempt, setupFailed, out>>

\* initializeCrc: crcStatus.initialize() settled (lines 344-345, 224-227), then
\* createCrcVm calls startCrc (line 207)
InitConnectResolves(p, logs) ==
  /\ pc[p] = "initConnect"
  /\ pendingPreset < MaxPending
  /\ Begin(p, entry[p], 0,
           <<"startStatusUpdate", "presetChanged", "addCommands", "syncPreferences">>,
           [NoEv EXCEPT !.op = "initConnectResolves"], providerStatus, pendingPreset + 1,
           TRUE, logs)
  /\ UNCHANGED <<isNeedSetup, crcVersion, binderVars, pendingDelete, installing>>

(***************************************************************************)
(* The connection binder (extension.ts lines 332-379).                     *)
(***************************************************************************)
\* readPreset (lines 332-341): the configured preset, openshift when configGet fails
ReadPreset(config) == IF config = "error" THEN "openshift" ELSE config

\* presetChangedEvent fires (lines 176-180): presetChanged is called
PresetChangedEvent ==
  /\ pendingPreset < MaxPending
  /\ pendingPreset' = pendingPreset + 1
  /\ ev' = [NoEv EXCEPT !.op = "presetChangedEvent", !.calls = <<"presetChanged">>]
  /\ UNCHANGED <<providerStatus, isNeedSetup, setupRunning, crcVersion,
                 binderVars, commands, pendingDelete, installing, opVars>>

\* commander.configGet() of one presetChanged call settled (lines 358-378);
\* updateProviderVersionWithPreset reads crcVersion.version (line 349), and
\* registerPodmanConnection looks for the socket (line 264)
ReadPresetResolves(config, socketExists) ==
  /\ pendingPreset > 0
  /\ pendingPreset' = pendingPreset - 1
  /\ LET preset == ReadPreset(config)
         b == PresetChangedBody(Binder, preset, socketExists)
         e0 == [NoEv EXCEPT !.op = "presetChanged", !.preset = preset,
                            !.socket = (preset = "podman" /\ socketExists),
                            !.answer = IF config = "error" THEN "error" ELSE "ok"]
     IN IF ~crcVersion
        THEN /\ ev' = [e0 EXCEPT !.threw = TRUE]
             /\ UNCHANGED binderVars
        ELSE /\ b.cont <= MaxContainers
             /\ connectionDisposable' = b.cd
             /\ liveK8s' = b.k8s
             /\ liveContainers' = b.cont
             /\ ev' = [e0 EXCEPT !.calls = b.calls]
  /\ UNCHANGED <<providerStatus, isNeedSetup, setupRunning, crcVersion,
                 commands, pendingDelete, installing, opVars>>

(***************************************************************************)
(* Delete (extension.ts lines 306-308, 321-330).                           *)
(***************************************************************************)
\* kubernetesProviderConnection.lifecycle.delete: handleDelete awaits deleteCrc
DeleteCall ==
  /\ liveK8s > 0
  /\ pendingDelete < MaxDeletes
  /\ pendingDelete' = pendingDelete + 1
  /\ ev' = [NoEv EXCEPT !.op = "delete", !.calls = <<"deleteCrc">>]
  /\ UNCHANGED <<providerStatus, isNeedSetup, setupRunning, crcVersion,
                 binderVars, commands, pendingPreset, installing, opVars>>

DeleteResolves(r) ==
  /\ pendingDelete > 0
  /\ pendingDelete' = pendingDelete - 1
  /\ LET b == HandleDeleteBody(Binder, r = "true")
         e0 == [NoEv EXCEPT !.op = "deleteResolves", !.answer = r,
                            !.threw = (r = "throw")]
     IN /\ connectionDisposable' = b.cd
        /\ liveK8s' = b.k8s
        /\ liveContainers' = b.cont
        /\ commands' = IF r = "true" THEN FALSE ELSE commands
        /\ ev' = [e0 EXCEPT !.calls = b.calls]
  /\ UNCHANGED <<providerStatus, isNeedSetup, setupRunning, crcVersion,
                 pendingPreset, installing, opVars>>

(***************************************************************************)
(* Installation callback (extension.ts lines 159-170).  The host offers the  *)
(* installation of a provider whose status is not-installed.               *)
(***************************************************************************)
InstallCallback(setupResult, newVersion) ==
  /\ installing = 0
  /\ providerStatus = "not-installed"
  /\ providerStatus' = "installed"
  /\ crcVersion' = (crcVersion \/ newVersion)
  /\ installing' = IF setupResult THEN 1 ELSE 0
  /\ ev' = [NoEv EXCEPT !.op = "installCallback",
                        !.calls = <<"updateStatus(installed)">> \o
                                  (IF setupResult THEN <<"crcStatus.initialize">> ELSE <<>>)]
  /\ UNCHANGED <<isNeedSetup, setupRunning, binderVars, commands,
                 pendingPreset, pendingDelete, opVars>>

\* connectToCrc of the install callback settled (lines 167-169)
InstallConnectResolves ==
  /\ installing > 0
  /\ pendingPreset < MaxPending
  /\ installing' = installing - 1
  /\ commands' = TRUE
  /\ pendingPreset' = pendingPreset + 1
  /\ ev' = [NoEv EXCEPT !.op = "installConnectResolves",
                        !.calls = <<"startStatusUpdate", "addCommands", "syncPreferences",
                                    "presetChanged">>]
  /\ UNCHANGED <<providerStatus, isNeedSetup, setupRunning, crcVersion, binderVars,
                 pendingDelete, opVars>>

(***************************************************************************)
(* Status changes (extension.ts lines 182-186).                            *)
(***************************************************************************)
\* crcStatus fires onStatusChange with the preset the daemon reports: the listener
\* calls updateProviderVersionWithPreset (lines 184, 349) and nothing else
StatusChange(preset) ==
  /\ ev' = [NoEv EXCEPT !.op = "statusChange", !.preset = preset,
                        !.threw = ~crcVersion,
                        !.calls = IF crcVersion THEN <<"updateVersion">> ELSE <<>>]
  /\ UNCHANGED <<providerStatus, isNeedSetup, setupRunning, crcVersion, binderVars,
                 commands, pendingPreset, pendingDelete, installing, opVars>>

(***************************************************************************)
(* Specifications.                                                         *)
(***************************************************************************)
\* the steps of startCrc, with the answers the daemon and the user may give
StartSteps(p, statuses, errors, prompts, logResults) ==
  \/ \E r \in SetupResults : SetUpCrcResolves(p, r)
  \/ \E logs \in logResults : NeedSetupResolves(p, logs)
  \/ \E status \in statuses : CommanderStartResolves(p, status)
  \/ \E err \in errors : CommanderStartThrows(p, err)
  \/ \E n \in prompts : PromptResolves(p, n)
  \/ \E stored \in BOOLEAN, logs \in logResults : StoreResolves(p, stored, logs)
  \/ Settle(p)

FactorySteps(p, logResults) ==
  \/ \E e \in {"initialize", "create"}, status \in CrcStatuses, logs \in logResults :
       FactoryCall(p, e, status, logs)
  \/ \E r \in SetupResults : InitSetUpCrcResolves(p, r)
  \/ InitNeedSetupResolves(p)
  \/ \E logs \in logResults : InitConnectResolves(p, logs)

\* fs.existsSync (line 264) is asked only when the preset is podman
SocketAnswers(config) == IF config = "podman" THEN BOOLEAN ELSE {FALSE}

BinderSteps ==
  \/ PresetChangedEvent
  \/ \E config \in Presets \cup {"error"} : \E socketExists \in SocketAnswers(config) :
       ReadPresetResolves(config, socketExists)
  \/ DeleteCall
  \/ \E r \in DeleteResults : DeleteResolves(r)
  \/ \E setupResult \in BOOLEAN, newVersion \in BOOLEAN :
       InstallCallback(setupResult, newVersion)
  \/ InstallConnectResolves

\* one answer of each kind the code tells apart
SomeStatuses == {"Running", "Stopped"}
SomeErrors == {err \in ThrownErrors : err.message \in {<<missingPullSecret, ": no pull secret">>,
                                                        <<"socket hang up">>,
                                                        <<"Internal Server Error">>}}

\* the answers that decide how a start operation ends: success, failure, an error;
\* the prompt cancelled or answered with {"auths":{"registry.io":{"auth":"xxx"}}}
FewErrors == {err \in SomeErrors : err.name # "RequestError"}
FewPrompts == {0, 10}
FewLogs == {"ok", "throw"}

\* the whole extension: activation, the connection factory, the binder, delete and
\* installation, with one factory operation at a time
Next ==
  \/ StartSteps(1, SomeStatuses, FewErrors, FewPrompts, FewLogs)
  \/ FactorySteps(1, FewLogs)
  \/ BinderSteps

Spec == Init /\ [][Next]_vars

\* start operations of the provider and connection lifecycles running concurrently
\* in an extension that is activated with a version installed
InitStart == \E needSetup \in BOOLEAN : InitWith(TRUE, needSetup, "Running")

NextConcurrent ==
  \/ \E p \in Ops, logs \in FewLogs : ProviderStart(p, logs)
  \/ \E p \in Ops, logs \in FewLogs : ConnectionStart(p, logs)
  \/ \E p \in Ops : StartSteps(p, SomeStatuses, SomeErrors, FewPrompts, FewLogs)
  \/ ReadPresetResolves("openshift", FALSE)

SpecConcurrent == InitStart /\ [][NextConcurrent]_vars

\* one start operation at a time, with every answer of the daemon and of the user
NextStart ==
  \/ \E logs \in LogResults : ProviderStart(1, logs)
  \/ \E logs \in LogResults : ConnectionStart(1, logs)
  \/ StartSteps(1, DaemonStatuses, ThrownErrors, PromptResults, LogResults)
  \/ \E config \in Presets \cup {"error"} : \E socketExists \in SocketAnswers(config) :
       ReadPresetResolves(config, socketExists)

SpecStart == InitStart /\ [][NextStart]_vars

\* the binder, delete, installation and the status tracker's events, with no start
\* operation under way
NextBinder ==
  \/ BinderSteps
  \/ \E preset \in Presets : StatusChange(preset)

SpecBinder == Init /\ [][NextBinder]_vars

\* the operations of the connection factory, one at a time, and the presetChanged
\* calls they make
NextFactory ==
  \/ StartSteps(1, SomeStatuses, FewErrors, FewPrompts, FewLogs)
  \/ FactorySteps(1, FewLogs)
  \/ \E config \in Presets \cup {"error"} : \E socketExists \in SocketAnswers(config) :
       ReadPresetResolves(config, socketExists)

SpecFactory == Init /\ [][NextFactory]_vars

(***************************************************************************)
(* Properties.                                                             *)
(***************************************************************************)
Has(calls, c) == \E i \in 1..Len(calls) : calls[i] = c

LifecycleEntries == {"providerStart", "connectionStart"}

\* the steps in which a startCrc call may settle
SettlingOps == {"setUpCrcResolves", "needSetupResolves", "commanderStartResolves",
                "commanderStartThrows", "promptResolves", "storeThrows", "storeResolves",
                "providerStart", "connectionStart"}

\* C1: at most one connection binding (Kubernetes or container engine) is registered
\* with the host and not disposed, in every reachable state.
C1_AtMostOneLiveBinding == liveK8s + liveContainers <= 1

\* C2: when presetChanged runs with the podman preset while a Kubernetes connection is
\* live, it does not throw, it disposes that connection before it registers the
\* container connection, no Kubernetes connection is live afterwards, and the
\* container connection is registered exactly when the podman socket exists.
C2_KubernetesDisposedBeforePodman ==
  [][ (liveK8s > 0 /\ ev'.op = "presetChanged" /\ ev'.preset = "podman") =>
        /\ ~ev'.threw
        /\ liveK8s' = 0
        /\ Has(ev'.calls, "connectionDisposable.dispose")
        /\ \A j \in 1..Len(ev'.calls) :
             ev'.calls[j] = "registerContainerProviderConnection" =>
               \E i \in 1..(j - 1) : ev'.calls[i] = "connectionDisposable.dispose"
        /\ IF ev'.socket
           THEN /\ Has(ev'.calls, "registerContainerProviderConnection")
                /\ liveContainers' = liveContainers + 1
           ELSE /\ ~Has(ev'.calls, "registerContainerProviderConnection")
                /\ liveContainers' = liveContainers ]_vars

\* C2 witness: presetChanged ran with podman, disposed the connection it found and,
\* the socket missing, registered nothing.
C2_Witness ==
  /\ ev.op = "presetChanged"
  /\ ev.preset = "podman"
  /\ ~ev.socket
  /\ ~ev.threw
  /\ Has(ev.calls, "connectionDisposable.dispose")
  /\ liveK8s = 0
  /\ liveContainers = 0

\* C3: no second startCrc begins while an earlier one is in flight: at most one
\* operation is suspended inside startCrc.
C3_OneStartInFlight == Cardinality({p \in Ops : pc[p] \in StartPcs}) <= 1

\* C4: when commander.start() resolves, the status it reports decides the result:
\* "Running" gives success and provider status started, any other status gives
\* failure and provider status error.
C4_ResultDecidedByReportedStatus ==
  ev.op = "commanderStartResolves" =>
    /\ pc[ev.p] = "done"
    /\ IF ev.reported = "Running"
       THEN out[ev.p] = "true" /\ providerStatus = "started"
       ELSE out[ev.p] = "false" /\ providerStatus = "error"

\* C4 witness: the daemon reported a status other than Running and start failed.
C4_Witness ==
  /\ ev.op = "commanderStartResolves"
  /\ ev.reported = "Stopped"
  /\ attempt[ev.p] = 0
  /\ out[ev.p] = "false"
  /\ providerStatus = "error"

\* C5: a start whose setup failed does not invoke the daemon's start operation, and
\* returns failure with provider status stopped and the setup-running flag false.
C5_FailedSetupEndsStart ==
  \A p \in Ops :
    (setupFailed[p] /\ entry[p] \in LifecycleEntries) =>
      /\ pc[p] \notin {"commanderStart", "prompt", "store"}
      /\ (ev.p = p => ~Has(ev.calls, "commander.start"))
      /\ (pc[p] = "done" => out[p] \in {"false", "undefined"})
      /\ (pc[p] = "done" /\ ev.p = p /\ ev.op \in SettlingOps =>
            providerStatus = "stopped" /\ ~setupRunning)

\* C6: after a missing-pull-secret error and a stored pull secret the whole of startCrc
\* runs again, and the operation settles exactly as the retried attempt settles, with
\* the provider status that attempt set.
C6_RetryResultIsResult ==
  /\ ev.op = "storeResolves" =>
       /\ attempt[ev.p] >= 1
       /\ pc[ev.p] \in {"setUpCrc", "commanderStart", "done"}
       /\ Head(ev.calls) = "logUsage(crc.start)"
       /\ \/ Has(ev.calls, "setUpCrc")
          \/ Has(ev.calls, "commander.start")
          \/ (ev.logs = "throw" /\ Has(ev.calls, "startSendingLogs"))
  /\ \A p \in Ops :
       (pc[p] = "done" /\ attempt[p] >= 1 /\ ev.p = p /\ ev.op \in SettlingOps) =>
         /\ out[p] = ev.attemptOut
         /\ out[p] = "true" => providerStatus = "started"
         /\ out[p] = "false" => providerStatus \in {"error", "stopped"}
         /\ out[p] = "undefined" => providerStatus = "stopped"

\* C6 witness: a retried start has succeeded.
C6_Witness ==
  \E p \in Ops :
    /\ pc[p] = "done"
    /\ attempt[p] >= 1
    /\ out[p] = "true"
    /\ ev.p = p
    /\ ev.op = "commanderStartResolves"

\* the user gave no text, or a text that fails validation
NoValidSecret(n) == n = 0 \/ ValidationError(PullSecretInputs[n]) # "none"

\* C7: when no valid pull secret is obtained (prompt cancelled, input invalid, or the
\* daemon fails to store it), start fails with the error "Could not start without
\* pullsecret!" and commander.start() is not invoked again.
C7_NoSecretNoRetry ==
  (ev.op = "storeThrows" \/ (ev.op = "promptResolves" /\ NoValidSecret(ev.input))) =>
    /\ pc[ev.p] = "done"
    /\ out[ev.p] = "throw: Could not start without pullsecret!"
    /\ ~Has(ev.calls, "commander.start")
    /\ ~Has(ev.calls, "logUsage(crc.start)")

\* C7 witness: the prompt was cancelled and the start failed.
C7_Witness ==
  /\ ev.op = "promptResolves"
  /\ ev.input = 0
  /\ pc[ev.p] = "done"
  /\ out[ev.p] = "throw: Could not start without pullsecret!"

\* C8: a thrown error that is not a missing-pull-secret error gives success and status
\* started when it is a connection reset (name RequestError, code ECONNRESET), and
\* failure and status stopped otherwise.
C8_ConnectionResetIsSuccess ==
  (ev.op = "commanderStartThrows" /\ ~StartsWith(ev.err.message, missingPullSecret)) =>
    /\ pc[ev.p] = "done"
    /\ IF ev.err.name = "RequestError" /\ ev.err.code = "ECONNRESET"
       THEN out[ev.p] = "true" /\ providerStatus = "started"
       ELSE out[ev.p] = "false" /\ providerStatus = "stopped"

\* C8 witness: commander.start() failed with a connection reset and start succeeded.
C8_Witness ==
  /\ ev.op = "commanderStartThrows"
  /\ ev.err.name = "RequestError"
  /\ ev.err.code = "ECONNRESET"
  /\ ~StartsWith(ev.err.message, missingPullSecret)
  /\ out[ev.p] = "true"
  /\ providerStatus = "started"

\* C9: startCrc always settles by returning a value, never by throwing.
C9_StartNeverThrows ==
  \A p \in Ops : (pc[p] = "done" /\ entry[p] \in LifecycleEntries) => out[p] \notin Throws

\* the text parses to an object with a non-empty auths object in which every entry is
\* an object with an auth or a credsStore member
WellFormedPullSecret(text) ==
  LET r == JSONParse(text) IN
  /\ r.ok
  /\ r.val.t = "obj"
  /\ LET a == Get(r.val, "auths") IN
     /\ a.t = "obj"
     /\ Len(a.m) > 0
     /\ \A i \in 1..Len(a.m) :
          /\ a.m[i][2].t = "obj"
          /\ \E j \in 1..Len(a.m[i][2].m) : a.m[i][2].m[j][1] \in {"auth", "credsStore"}

Accepted == Has(ev.calls, "pullSecretStore")

Rejected ==
  /\ ~Has(ev.calls, "pullSecretStore")
  /\ pc[ev.p] = "done"
  /\ out[ev.p] = "throw: Could not start without pullsecret!"

\* {}, {"auths":{}} and {"auths":{"r":{}}}
NamedInvalidInputs == {7, 8, 9}

\* C10, as stated: an input is accepted only if it is well formed, and every rejected
\* input is answered with an error message, failure, and no pullSecretStore call.
C10_EveryRejectedInputShown ==
  (ev.op = "promptResolves" /\ ev.input # 0) =>
    /\ Accepted => WellFormedPullSecret(PullSecretInputs[ev.input])
    /\ ev.input \in NamedInvalidInputs => ~Accepted
    /\ ~Accepted => Rejected /\ Has(ev.calls, "showErrorMessage")

\* C10, amended: as stated for every non-empty input; the empty input is rejected
\* like a cancelled prompt: failure, no pullSecretStore call, and no error message.
C10_NonEmptyRejectedInputShown ==
  (ev.op = "promptResolves" /\ ev.input # 0) =>
    /\ Accepted => WellFormedPullSecret(PullSecretInputs[ev.input])
    /\ ev.input \in NamedInvalidInputs => ~Accepted
    /\ ~Accepted => Rejected
    /\ ~Accepted => (Has(ev.calls, "showErrorMessage") <=> PullSecretInputs[ev.input] # <<>>)

\* C10 witness: {"auths":{"r":{}}} was entered and rejected with an error message.
C10_Witness ==
  /\ ev.op = "promptResolves"
  /\ ev.input = 9
  /\ Rejected
  /\ Has(ev.calls, "showErrorMessage")

Count(seq, c) == Cardinality({i \in 1..Len(seq) : seq[i] = c})

\* the operation went through createCrcVm while the status was Need Setup
FirstRun(p) == ran[p] # <<>> /\ ran[p][1] = "initializeCrc"

\* C12: on the first-run path setup is invoked first and exactly once, the status
\* connect after it and the daemon's start only after the connect; when setup fails
\* the operation ends with an error, and neither the connect nor the daemon's start is
\* invoked.
C12_FirstRunOrder ==
  \A p \in Ops :
    FirstRun(p) =>
      /\ Count(ran[p], "setUpCrc") = 1
      /\ ran[p][2] = "setUpCrc"
      /\ Count(ran[p], "crcStatus.initialize") <= 1
      /\ \A i \in 1..Len(ran[p]) :
           /\ ran[p][i] = "crcStatus.initialize" => i = 3
           /\ ran[p][i] = "commander.start" => (i > 3 /\ ran[p][3] = "crcStatus.initialize")
      /\ pc[p] \in StartPcs => Has(ran[p], "crcStatus.initialize")
      /\ setupFailed[p] =>
           /\ pc[p] = "done"
           /\ out[p] \in {"throw: not initialized", "throw: setup error"}
           /\ ran[p] = <<"initializeCrc", "setUpCrc">>

\* C12 witness: a first-run operation has set up, connected and then started the
\* daemon, which reported Running.
C12_Witness ==
  \E p \in Ops :
    /\ ran[p] = <<"initializeCrc", "setUpCrc", "crcStatus.initialize", "commander.start">>
    /\ pc[p] = "done"
    /\ out[p] = "true"

\* C13: while a start operation is in flight, from whichever entry point it was
\* triggered, the provider status is starting: it was set before the first await.
C13_StartingWhileInFlight ==
  \A p \in Ops : pc[p] \in StartPcs => providerStatus = "starting"

\* the awaits at which an operation is inside a setup: the try block of startCrc
\* (lines 46-49) and the setUpCrc call of initializeCrc (line 220)
SetupPcs == {"setUpCrc", "needSetup", "initSetUpCrc"}

\* C14: the setup-running flag is true exactly while some operation is inside a setup,
\* whether startCrc or initializeCrc runs it, and whatever the interleaving.
C14_FlagTracksSetup == setupRunning <=> (\E p \in Ops : pc[p] \in SetupPcs)

\* C15: a status-change event that reports a preset of the other connection type
\* than the one bound makes the binder run: afterwards the live connection is the
\* container connection for podman, the Kubernetes connection for openshift and
\* microshift.
C15_StatusChangeRebinds ==
  [][ ev'.op = "statusChange" =>
        /\ (ev'.preset = "podman" /\ liveK8s > 0) =>
             (liveK8s' = 0 /\ Has(ev'.calls, "connectionDisposable.dispose"))
        /\ (ev'.preset # "podman" /\ liveK8s = 0 /\ liveContainers > 0) =>
             (liveK8s' = 1 /\ Has(ev'.calls, "registerKubernetesProviderConnection")) ]_vars

\* C16: when presetChanged runs and configGet fails, the preset is openshift, nothing
\* is thrown and a Kubernetes connection is registered and live afterwards, also
\* when no version of the daemon is known.
C16_FallbackBinds ==
  (ev.op = "presetChanged" /\ ev.answer = "error") =>
    /\ ev.preset = "openshift"
    /\ ~ev.threw
    /\ Has(ev.calls, "registerKubernetesProviderConnection")
    /\ connectionDisposable = "live"
    /\ liveK8s = 1

\* C17: a failure to begin the log streaming does not end the start: the step that
\* called startSendingLogs goes on to call commander.start(), whose outcome alone
\* decides the start.
C17_LogsBestEffort ==
  ev.logs \in {"reject", "throw"} =>
    /\ Has(ev.calls, "startSendingLogs")
    /\ Has(ev.calls, "commander.start")
    /\ pc[ev.p] = "commanderStart"

\* the step just taken ended an attempt of startCrc without a stored pull secret
AttemptEndedWithoutSecret ==
  \/ ev.op \in {"commanderStartResolves", "storeThrows"}
  \/ ev.op = "commanderStartThrows" /\ ~Has(ev.calls, "showInputBox")
  \/ ev.op = "promptResolves" /\ ~Has(ev.calls, "pullSecretStore")
  \/ ev.op = "setUpCrcResolves" /\ ev.answer = "throw"
  \/ ev.logs = "throw"

\* C18: within one operation commander.start() is invoked again only after a pull
\* secret was entered, validated and stored: between two invocations there is a
\* store, the invocations number at most one more than the stores, and the operation
\* ends as soon as an attempt ends without a stored secret.
C18_RetryOnlyAfterStore ==
  /\ \A p \in Ops :
       /\ Count(ran[p], "commander.start") <= 1 + Count(ran[p], "stored")
       /\ Count(ran[p], "stored") = attempt[p]
       /\ \A i, j \in 1..Len(ran[p]) :
            (i < j /\ ran[p][i] = "commander.start" /\ ran[p][j] = "commander.start") =>
              \E k \in (i + 1)..(j - 1) : ran[p][k] = "stored"
  /\ AttemptEndedWithoutSecret => pc[ev.p] = "done"

\* C18 witness: commander.start() was invoked a second time, after a stored pull
\* secret, and that attempt ended the operation.
C18_Witness ==
  \E p \in Ops :
    /\ ran[p] = <<"commander.start", "stored", "commander.start">>
    /\ pc[p] = "done"
    /\ ev.p = p
    /\ AttemptEndedWithoutSecret

\* C19: a start operation of the provider or connection lifecycle that has settled,
\* by returning or by throwing, leaves the provider status started, stopped or
\* error: the status is starting only while a start is in flight.
C19_NoStaleStarting ==
  /\ providerStatus = "starting" => \E p \in Ops : pc[p] \in StartPcs
  /\ \A p \in Ops :
       (pc[p] = "done" /\ entry[p] \in LifecycleEntries /\ ev.p = p) =>
         providerStatus \in {"started", "stopped", "error"}

\* C20: connectionDisposable is defined exactly when a Kubernetes connection is live
\* and never refers to a disposed connection; so when createCrcVm has started the
\* daemon and no Kubernetes connection is live, it calls presetChanged to register
\* one.
C20_HandleTracksBinding ==
  /\ connectionDisposable # "disposed"
  /\ (connectionDisposable = "live") <=> (liveK8s > 0)
  /\ \A p \in Ops :
       (/\ pc[p] = "done" /\ ev.p = p /\ ev.op \in SettlingOps \cup {"initialize", "create",
                                                                 "initConnectResolves"}
        /\ entry[p] \in {"initialize", "create"}
        /\ out[p] = "true"
        /\ liveK8s = 0) => Has(ev.calls, "presetChanged")

====
